---- MODULE Spec2Model ----
(***************************************************************************)
(* Model of xpressnet.py: the XpressNet client (class XpressNet) talking   *)
(* over a byte-stream socket.  Bytes are integers 0..255, byte strings are *)
(* sequences.  One action is one socket call (send or recv) together with  *)
(* all the code that runs up to the next socket call or to the return of   *)
(* the public method.                                                      *)
(***************************************************************************)
EXTENDS Integers, Sequences, FiniteSets, TLC

\* ------------------------------------------------------------------ bounds
\* number of frames the peer puts on the stream
MaxFrames == 2
\* length of the oversized parameter list offered to cmd()
LongParamLen == 16

\* ------------------------------------------------------------ bit helpers
RECURSIVE BitXor(_, _)
BitXor(a, b) ==
    IF a = 0 THEN b
    ELSE IF b = 0 THEN a
    ELSE (((a % 2) + (b % 2)) % 2) + (2 * BitXor(a \div 2, b \div 2))

RECURSIVE BitAnd(_, _)
BitAnd(a, b) ==
    IF a = 0 \/ b = 0 THEN 0
    ELSE ((a % 2) * (b % 2)) + (2 * BitAnd(a \div 2, b \div 2))

BitOr(a, b) == (a + b) - BitAnd(a, b)

\* reduce(lambda r, v: r ^ v, data) for a non-empty byte string
RECURSIVE xor_reduce(_)
xor_reduce(data) ==
    IF Len(data) = 1 THEN data[1]
    ELSE BitXor(xor_reduce(SubSeq(data, 1, Len(data) - 1)), data[Len(data)])

\* ------------------------------------------------------------------ enums
INTERFACE_STATUS == 0
PROGRAMMING == 32
ACCESSORY_REPORT == 64
ACCESSORY_CONTROL == 80
STATUS == 96
ALL_LOCOS == 128
LOCO == 224
INTERFACE == 240

Command ==
    {INTERFACE_STATUS, PROGRAMMING, ACCESSORY_REPORT, ACCESSORY_CONTROL,
     STATUS, ALL_LOCOS, LOCO, INTERFACE}

OK == 0

Status == {0, 1, 2, 4, 5, 6, 7, 8, 9, 10, 17, 18, 19, 31}

TRACK_OFF == 0
TRACK_ON == 1
TRACK_PROGRAMMING == 2

TrackStatus == {TRACK_OFF, TRACK_ON, TRACK_PROGRAMMING}

\* the two preambles the read loop recognises
PreambleDirect == 65534
PreambleBroadcast == 65533

\* Python's None, as a command and as a message
NoCmd == -1
NoneMsg == [type |-> "None"]

\* ------------------------------------------------- outcomes of an operation
Return(v) == [raised |-> FALSE, value |-> v]
Raise(e, t) == [raised |-> TRUE, exc |-> e, text |-> t]

\* ------------------------------------------------------- message classes
XpressNetCommandResult(code, status, data) ==
    IF status \notin Status
    THEN Raise("ValueError", "is not a valid Status")
    ELSE Return([type |-> "XpressNetCommandResult", code |-> code,
                 status |-> status, data |-> data])

XpressNetProgrammingResult(cv, value) ==
    Return([type |-> "XpressNetProgrammingResult", cv |-> cv, value |-> value])

TrackStatusMessage(state) ==
    IF state \notin TrackStatus
    THEN Raise("ValueError", "is not a valid TrackStatus")
    ELSE Return([type |-> "TrackStatusMessage", state |-> state])

\* the accessory decoder with the undetermined flag taken from bit 7
AccessoryStateMessage_bit7(bytes) ==
    IF Len(bytes) < 2
    THEN Raise("IndexError", "bytearray index out of range")
    ELSE Return([type |-> "AccessoryStateMessage",
                 address |-> bytes[1],
                 undetermined |-> (BitAnd(bytes[2], 128) # 0),
                 kind |-> (bytes[2] \div 32) % 4,
                 nibble |-> (bytes[2] \div 16) % 2,
                 state |-> [i \in 1..4 |->
                              IF BitAnd(bytes[2], 2 ^ (i - 1)) # 0 THEN 1 ELSE 0]])

AccessoryStateMessage(bytes) ==
    IF Len(bytes) < 2
    THEN Raise("IndexError", "bytearray index out of range")
    ELSE Return([type |-> "AccessoryStateMessage",
                 address |-> bytes[1],
                 undetermined |-> (BitAnd(bytes[2], 64) # 0),
                 kind |-> (bytes[2] \div 32) % 4,
                 nibble |-> (bytes[2] \div 16) % 2,
                 state |-> [i \in 1..4 |->
                              IF BitAnd(bytes[2], 2 ^ (i - 1)) # 0 THEN 1 ELSE 0]])

\* ------------------------------------------------------------ __get_status
\* the decoder that keeps the payload whatever command is outstanding
interface_status_result_keep(cmdv, code, data) ==
    XpressNetCommandResult(code, OK, data)

\* lines 153-160: a frame with code INTERFACE_STATUS
interface_status_result(cmdv, code, data) ==
    IF cmdv = INTERFACE THEN XpressNetCommandResult(code, OK, data)
    ELSE IF Len(data) # 1
    THEN Raise("XpressNetException", "unexpected response data")
    ELSE XpressNetCommandResult(code, data[1], <<>>)

\* the decoder without the CV 1024 case of subcode 0x14
programming_result_no_1024(data) ==
    IF Len(data) # 3
    THEN Raise("XpressNetException", "Invalid programming response")
    ELSE IF data[1] \in {16, 20} THEN XpressNetProgrammingResult(data[2], data[3])
    ELSE IF data[1] = 21 THEN XpressNetProgrammingResult(data[2] + 256, data[3])
    ELSE IF data[1] = 22 THEN XpressNetProgrammingResult(data[2] + 512, data[3])
    ELSE IF data[1] = 23 THEN XpressNetProgrammingResult(data[2] + 768, data[3])
    ELSE Raise("XpressNetException", "Unknown programming response code")

\* lines 166-188: a direct frame with code STATUS
programming_result(data) ==
    IF Len(data) # 3
    THEN Raise("XpressNetException", "Invalid programming response")
    ELSE IF data[1] = 16 THEN XpressNetProgrammingResult(data[2], data[3])
    ELSE IF data[1] = 20 THEN
        IF data[2] = 0 THEN XpressNetProgrammingResult(1024, data[3])
        ELSE XpressNetProgrammingResult(data[2], data[3])
    ELSE IF data[1] = 21 THEN XpressNetProgrammingResult(data[2] + 256, data[3])
    ELSE IF data[1] = 22 THEN XpressNetProgrammingResult(data[2] + 512, data[3])
    ELSE IF data[1] = 23 THEN XpressNetProgrammingResult(data[2] + 768, data[3])
    ELSE Raise("XpressNetException", "Unknown programming response code")

get_status(cmdv, is_broadcast, code, length, data) ==
    IF code = INTERFACE_STATUS THEN interface_status_result(cmdv, code, data)
    ELSE IF code = STATUS THEN
        IF is_broadcast THEN
            IF Len(data) # 1
            THEN Raise("XpressNetException", "Unknown response")
            ELSE TrackStatusMessage(data[1])
        ELSE programming_result(data)
    ELSE IF code = INTERFACE THEN
        IF Len(data) = 0
        THEN Raise("ValueError", "not enough values to unpack")
        ELSE IF data[1] \in {1, 2, 3}
        THEN XpressNetCommandResult(code, OK, Tail(data))
        ELSE Raise("XpressNetException", "Unknown interface status response")
    ELSE IF code = ACCESSORY_REPORT THEN AccessoryStateMessage(data)
    ELSE Raise("XpressNetException", "Unknown response code")

\* -------------------------------------------------------------- __checksum
\* the inbound check with the header left out of the XOR
checksum_payload_only(data, sum) ==
    (IF Len(data) = 1 THEN 0 ELSE xor_reduce(Tail(data))) # sum

\* TRUE when __checksum(data, sum) raises
checksum(data, sum) == xor_reduce(data) # sum

\* ------------------------------------------------------------------- send
\* send() with the checksum taken over the parameters only
send_buffer_params_only(data) ==
    <<255, 254>> \o data
        \o <<IF Len(data) = 1 THEN 0 ELSE xor_reduce(Tail(data))>>

\* the buffer send() hands to sock.send
send_buffer(data) == <<255, 254>> \o data \o <<xor_reduce(data)>>

\* cmd() that writes its frame a second time
cmd_sends_twice(data) == <<send_buffer(data), send_buffer(data)>>

\* line 261: cmd() calls send() once
cmd_sends(data) == <<send_buffer(data)>>

\* __read that keeps only the last chunk: data = sock.recv(...)
read_replace(data, chunk) == chunk

\* line 146: data += sock.recv(...)
read_accumulate(data, chunk) == data \o chunk

\* ---------------------------------------------------- cmd(), after the read
\* lines 263-270: the debug line reads data.status and data.data, then the
\* response code is compared with the expectation
cmd_result(r, expected) ==
    IF r.raised THEN r
    ELSE IF r.value.type # "XpressNetCommandResult"
    THEN Raise("AttributeError", "object has no attribute 'status'")
    ELSE IF r.value.code = 0 THEN r
    ELSE IF r.value.code # expected
    THEN Raise("XpressNetException", "Response code")
    ELSE r

\* ------------------------------------------- __handle_response, lines 216-227
\* what the read loop does with a frame that passed the checksum
frame_result(cmdv, preamble, header, payload) ==
    IF preamble = PreambleDirect
    THEN get_status(cmdv, FALSE, header - (header % 16), header % 16, payload)
    ELSE IF preamble = PreambleBroadcast
    THEN get_status(cmdv, TRUE, header - (header % 16), header % 16, payload)
    ELSE Raise("XpressNetException", "Unknown response data")

\* the router with the variant test dropped: every broadcast sets the state
session_after_untyped(preamble, r, lb, ts) ==
    IF preamble = PreambleBroadcast /\ ~r.raised
    THEN [last_broadcast |-> r.value,
          track_status |-> IF r.value.type = "TrackStatusMessage"
                           THEN r.value.state ELSE TRACK_OFF]
    ELSE [last_broadcast |-> lb, track_status |-> ts]

\* the router with the preamble test dropped: direct responses are cached too
session_after_any_preamble(preamble, r, lb, ts) ==
    IF ~r.raised
    THEN [last_broadcast |-> r.value,
          track_status |-> IF r.value.type = "TrackStatusMessage"
                           THEN r.value.state ELSE ts]
    ELSE [last_broadcast |-> lb, track_status |-> ts]

\* the router that caches the broadcast but not the track state
session_after_stale(preamble, r, lb, ts) ==
    IF preamble = PreambleBroadcast /\ ~r.raised
    THEN [last_broadcast |-> r.value, track_status |-> ts]
    ELSE [last_broadcast |-> lb, track_status |-> ts]

\* lines 218-224: the session fields after a frame was decoded to r
session_after(preamble, r, lb, ts) ==
    IF preamble = PreambleBroadcast /\ ~r.raised
    THEN [last_broadcast |-> r.value,
          track_status |-> IF r.value.type = "TrackStatusMessage"
                           THEN r.value.state ELSE ts]
    ELSE [last_broadcast |-> lb, track_status |-> ts]

\* ------------------------------------------------------ frames of the peer
Mk(pre, header, payload) ==
    <<pre \div 256, pre % 256, header>> \o payload
        \o <<xor_reduce(<<header>> \o payload)>>

Corrupt(f, i, mask) == [f EXCEPT ![i] = BitXor(@, mask)]

\* well-formed frames with a recognised preamble and a known command
GoodFrames ==
    { Mk(PreambleDirect, 1, <<4>>),
      Mk(PreambleDirect, 242, <<1, 48>>),
      Mk(PreambleDirect, 99, <<20, 0, 77>>),
      Mk(PreambleDirect, 128, <<>>),
      Mk(PreambleBroadcast, 97, <<1>>),
      Mk(PreambleBroadcast, 97, <<0>>),
      Mk(PreambleBroadcast, 66, <<5, 82>>) }

\* frames with a correct checksum that the client cannot accept
OddFrames ==
    { Mk(PreambleBroadcast, 97, <<3>>),
      Mk(PreambleDirect, 16, <<>>),
      Mk(65532, 97, <<1>>) }

\* frames with one byte damaged in transit
CorruptFrames ==
    { Corrupt(Mk(PreambleBroadcast, 97, <<1>>), 4, 3),
      Corrupt(Mk(PreambleDirect, 1, <<4>>), 3, 16),
      Corrupt(Mk(PreambleDirect, 1, <<4>>), 3, 3),
      Corrupt(Mk(65532, 97, <<1>>), 5, 1) }

PeerFrames == GoodFrames \cup OddFrames \cup CorruptFrames

\* the parameter list that does not fit the length nibble
LongParams == [i \in 1..LongParamLen |-> i]

\* the calls the application makes: <<cmd, params, expected>>
CmdCalls ==
    { <<INTERFACE, <<>>, 0>>,
      <<INTERFACE, <<1>>, NoCmd>>,
      <<33, <<129>>, NoCmd>>,
      <<PROGRAMMING, LongParams, NoCmd>>,
      <<16, <<>>, NoCmd>> }

\* ------------------------------------------------------------------ state
VARIABLES
    arrived,        \* frames the peer has put on the stream, in order
    rpos,           \* number of stream bytes sock.recv has handed out
    closed,         \* "open", "peer" (peer shut down) or "local" (close())
    pc,             \* "Idle", "ReadHeader" (line 203) or "ReadData" (line 237)
    call,           \* the public call in progress, or the last one
    data,           \* __read: bytes accumulated so far
    need,           \* __read: length requested
    preamble,       \* __handle_response: local
    header,         \* __handle_response: local
    last_broadcast, \* self.last_broadcast
    track_status,   \* self.track_status
    sent,           \* buffers handed to sock.send by the call
    result,         \* outcome of the call as its caller sees it
    response,       \* value __handle_response returned to the call
    event,          \* what the client's last step did
    fstart,         \* rpos at the start of the current loop iteration
    log             \* one entry per iteration of the read loop that ended

vars ==
    <<arrived, rpos, closed, pc, call, data, need, preamble, header,
      last_broadcast, track_status, sent, result, response, event, fstart, log>>

RECURSIVE Flatten(_)
Flatten(fs) == IF fs = <<>> THEN <<>> ELSE Head(fs) \o Flatten(Tail(fs))

\* every byte the peer has sent so far
wire == Flatten(arrived)

Min(a, b) == IF a < b THEN a ELSE b

NoCall == [kind |-> "none", cmd |-> NoCmd, params |-> <<>>, expected |-> NoCmd]
Pending == [raised |-> FALSE, value |-> [type |-> "Pending"]]

Init ==
    /\ arrived = <<>>
    /\ rpos = 0
    /\ closed = "open"
    /\ pc = "Idle"
    /\ call = NoCall
    /\ data = <<>>
    /\ need = 0
    /\ preamble = 0
    /\ header = 0
    /\ last_broadcast = NoneMsg
    /\ track_status = TRACK_OFF
    /\ sent = <<>>
    /\ result = Pending
    /\ response = NoneMsg
    /\ event = "init"
    /\ fstart = 0
    /\ log = <<>>

\* --------------------------------------------------------- the environment
\* the peer writes one more frame
Arrive(f) ==
    /\ closed = "open"
    /\ Len(arrived) < MaxFrames
    /\ arrived' = Append(arrived, f)
    /\ UNCHANGED <<rpos, closed, pc, call, data, need, preamble, header,
                   last_broadcast, track_status, sent, result, response,
                   event, fstart, log>>

\* the peer shuts the connection down: recv returns b'' once drained
ClosePeer ==
    /\ closed = "open"
    /\ closed' = "peer"
    /\ UNCHANGED <<arrived, rpos, pc, call, data, need, preamble, header,
                   last_broadcast, track_status, sent, result, response,
                   event, fstart, log>>

\* close() from outside the blocked call: socket calls raise OSError
close ==
    /\ closed = "open"
    /\ closed' = "local"
    /\ UNCHANGED <<arrived, rpos, pc, call, data, need, preamble, header,
                   last_broadcast, track_status, sent, result, response,
                   event, fstart, log>>

\* ------------------------------------------------------------ public calls
\* a call that raised before it reached the read loop
cmd_fails(c, ev, r) ==
    /\ call' = c
    /\ sent' = <<>>
    /\ result' = r
    /\ response' = NoneMsg
    /\ event' = ev
    /\ UNCHANGED <<arrived, rpos, closed, pc, data, need, preamble, header,
                   last_broadcast, track_status, fstart, log>>

\* cmd(cmd, params, expected), lines 255-262
cmd(c, params, expected) ==
    /\ pc = "Idle"
    /\ LET cv == c - (c % 16)
           ex == IF expected = NoCmd THEN cv ELSE expected
           hd == BitOr(cv, Len(params))
           cl == [kind |-> "cmd", cmd |-> cv, params |-> params, expected |-> ex]
       IN  IF cv \notin Command
           THEN cmd_fails(cl, "cmd_error", Raise("ValueError", "is not a valid Command"))
           ELSE IF hd > 255
           THEN cmd_fails(cl, "cmd_error", Raise("ValueError", "byte must be in range(0, 256)"))
           ELSE IF closed = "local"
           THEN cmd_fails(cl, "cmd_error", Raise("OSError", "Bad file descriptor"))
           ELSE /\ call' = cl
                /\ sent' = cmd_sends(<<hd>> \o params)
                /\ pc' = "ReadHeader"
                /\ data' = <<>>
                /\ need' = 3
                /\ fstart' = rpos
                /\ result' = Pending
                /\ response' = NoneMsg
                /\ event' = "send"
                /\ UNCHANGED <<arrived, rpos, closed, preamble, header,
                               last_broadcast, track_status, log>>

\* receive_one(), lines 272-273
receive_one ==
    /\ pc = "Idle"
    /\ call' = [kind |-> "receive_one", cmd |-> NoCmd, params |-> <<>>,
                expected |-> NoCmd]
    /\ sent' = <<>>
    /\ pc' = "ReadHeader"
    /\ data' = <<>>
    /\ need' = 3
    /\ fstart' = rpos
    /\ result' = Pending
    /\ response' = NoneMsg
    /\ event' = "receive_one"
    /\ UNCHANGED <<arrived, rpos, closed, preamble, header,
                   last_broadcast, track_status, log>>

\* ------------------------------------------------------------ the read loop
\* the public call returns or raises: r is what __handle_response produced
call_ends(r) ==
    /\ pc' = "Idle"
    /\ data' = <<>>
    /\ need' = 0
    /\ response' = IF r.raised THEN NoneMsg ELSE r.value
    /\ result' = IF call.kind = "cmd" THEN cmd_result(r, call.expected)
                 ELSE IF r.raised THEN r ELSE Return(NoneMsg)

LogEntry(e, p, h, cls, r) ==
    [start |-> fstart, end |-> e, preamble |-> p, header |-> h,
     class |-> cls, res |-> r]

\* __read got only part of the bytes it asked for (line 145 loops)
read_partial(got) ==
    /\ data' = got
    /\ event' = "partial"
    /\ UNCHANGED <<pc, need, preamble, header, last_broadcast, track_status,
                   result, response, fstart, log>>

\* lines 205-212: the three header bytes are in
read_header(got) ==
    LET p == (got[1] * 256) + got[2]
        h == got[3]
    IN  /\ preamble' = p
        /\ header' = h
        /\ UNCHANGED <<last_broadcast, track_status>>
        /\ IF (h - (h % 16)) \notin Command
           THEN /\ call_ends(Raise("ValueError", "is not a valid Command"))
                /\ event' = "bad_command"
                /\ log' = Append(log, LogEntry(rpos', p, h, "bad_command",
                              Raise("ValueError", "is not a valid Command")))
                /\ UNCHANGED fstart
           ELSE /\ pc' = "ReadData"
                /\ data' = <<>>
                /\ need' = (h % 16) + 1
                /\ event' = "header"
                /\ UNCHANGED <<result, response, fstart, log>>

\* lines 212-227: payload and checksum byte are in
read_data(got) ==
    LET payload == SubSeq(got, 1, Len(got) - 1)
        r == frame_result(call.cmd, preamble, header, payload)
        s == session_after(preamble, r, last_broadcast, track_status)
    IN  IF checksum(<<header>> \o payload, got[Len(got)])
        THEN /\ pc' = "ReadHeader"
             /\ data' = <<>>
             /\ need' = 3
             /\ fstart' = rpos'
             /\ event' = "checksum"
             /\ log' = Append(log, LogEntry(rpos', preamble, header, "checksum",
                           Raise("XpressNetException", "Checksum error")))
             /\ UNCHANGED <<preamble, header, last_broadcast, track_status,
                            result, response>>
        ELSE /\ call_ends(r)
             /\ last_broadcast' = s.last_broadcast
             /\ track_status' = s.track_status
             /\ event' = IF r.raised THEN "error"
                         ELSE IF preamble = PreambleDirect THEN "direct"
                         ELSE "broadcast"
             /\ log' = Append(log, LogEntry(rpos', preamble, header,
                           IF r.raised THEN "error"
                           ELSE IF preamble = PreambleDirect THEN "direct"
                           ELSE "broadcast", r))
             /\ UNCHANGED <<preamble, header, fstart>>

\* one sock.recv that returns n bytes (line 146) and the code that follows
recv(n) ==
    /\ pc \in {"ReadHeader", "ReadData"}
    /\ closed # "local"
    /\ n \in 1..Min(need - Len(data), Len(wire) - rpos)
    /\ rpos' = rpos + n
    /\ UNCHANGED <<arrived, closed, call, sent>>
    /\ LET got == read_accumulate(data, SubSeq(wire, rpos + 1, rpos + n))
       IN  IF Len(got) < need THEN read_partial(got)
           ELSE IF pc = "ReadHeader" THEN read_header(got)
           ELSE read_data(got)

\* sock.recv on a stream the peer shut down and that is drained returns b'':
\* data grows by nothing and the while loop of __read calls recv again
recv_eof ==
    /\ pc \in {"ReadHeader", "ReadData"}
    /\ closed = "peer"
    /\ Len(wire) = rpos
    /\ event' = IF event = "eof" THEN "eof_again" ELSE "eof"
    /\ UNCHANGED <<arrived, rpos, closed, pc, call, data, need, preamble,
                   header, last_broadcast, track_status, sent, result,
                   response, fstart, log>>

\* sock.recv on a socket closed locally: OSError leaves the call
recv_closed ==
    /\ pc \in {"ReadHeader", "ReadData"}
    /\ closed = "local"
    /\ call_ends(Raise("OSError", "Bad file descriptor"))
    /\ event' = "oserror"
    /\ UNCHANGED <<arrived, rpos, closed, call, preamble, header,
                   last_broadcast, track_status, sent, fstart, log>>

ClientStep ==
    \/ \E n \in 1..16 : recv(n)
    \/ recv_eof
    \/ recv_closed

Next ==
    \/ \E f \in PeerFrames : Arrive(f)
    \/ ClosePeer
    \/ close
    \/ \E c \in CmdCalls : cmd(c[1], c[2], c[3])
    \/ receive_one
    \/ \E n \in 1..16 : recv(n)
    \/ recv_eof
    \/ recv_closed

Spec == Init /\ [][Next]_vars

\* the blocked call keeps executing: its socket reads are always taken
FairSpec == Spec /\ WF_vars(ClientStep)

\* ------------------------------------------------- the decoder on its own
Byte == 0..255

\* the state in which __handle_response has read a frame with preamble p,
\* header h and payload d for a call with command c, and is about to decode
DecodeInit(p, h, d, c) ==
    /\ arrived = <<>>
    /\ rpos = 0
    /\ closed = "open"
    /\ pc = "Decode"
    /\ call = [kind |-> IF c = NoCmd THEN "receive_one" ELSE "cmd",
               cmd |-> c, params |-> <<>>, expected |-> c]
    /\ data = d
    /\ need = Len(d) + 1
    /\ preamble = p
    /\ header = h
    /\ last_broadcast = NoneMsg
    /\ track_status = TRACK_OFF
    /\ sent = <<>>
    /\ result = Pending
    /\ response = NoneMsg
    /\ event = "init"
    /\ fstart = 0
    /\ log = <<>>

\* lines 216-220: the checked payload is handed to __get_status
decode ==
    /\ pc = "Decode"
    /\ pc' = "Decoded"
    /\ result' = frame_result(call.cmd, preamble, header, data)
    /\ event' = "decoded"
    /\ UNCHANGED <<arrived, rpos, closed, call, data, need, preamble, header,
                   last_broadcast, track_status, sent, response, fstart, log>>

\* programming responses: every CV byte, the known subcodes and some others
ProgSubcodes == {0, 16, 17, 20, 21, 22, 23, 24, 255}
ProgValues == {0, 9, 77, 200, 255}
ProgPayloads ==
    {<<sc, cv, v>> : sc \in ProgSubcodes, cv \in Byte, v \in ProgValues}
        \cup {<<>>, <<16, 5>>, <<16, 5, 200, 0>>, <<20, 0, 77, 1>>}

ProgInit ==
    \E d \in ProgPayloads : \E c \in {NoCmd, STATUS} :
        DecodeInit(PreambleDirect, STATUS + Len(d), d, c)

ProgSpec == ProgInit /\ [][decode]_vars

\* interface-status frames: every status byte, other lengths, every kind of
\* outstanding command
IfacePayloads ==
    {<<>>, <<1, 2, 3>>} \cup {<<b>> : b \in Byte}
        \cup {<<a, b>> : a \in {0, 1, 4, 48}, b \in {0, 1, 4, 48}}

IfaceInit ==
    \E d \in IfacePayloads :
    \E c \in {NoCmd, INTERFACE, PROGRAMMING, INTERFACE_STATUS} :
    \E p \in {PreambleDirect, PreambleBroadcast} :
        DecodeInit(p, INTERFACE_STATUS + Len(d), d, c)

IfaceSpec == IfaceInit /\ [][decode]_vars

\* accessory reports: every pair of bytes
AccInit ==
    \E a \in Byte : \E b \in Byte :
        DecodeInit(PreambleDirect, ACCESSORY_REPORT + 2, <<a, b>>, NoCmd)

AccSpec == AccInit /\ [][decode]_vars

\* ------------------------------------------------ one command, echoed back
\* parameter lists of at most 15 bytes
RoundParams ==
    {<<>>} \cup {<<a>> : a \in {0, 1, 129, 255}}
        \cup {<<a, b>> : a \in {0, 1, 129, 255}, b \in {0, 1, 129, 255}}
        \cup {[i \in 1..15 |-> i], [i \in 1..15 |-> 255]}

\* the peer sends the command frame back, its last byte the XOR of header
\* and payload
echo ==
    /\ arrived = <<>>
    /\ closed = "open"
    /\ call.kind = "cmd"
    /\ pc = "ReadHeader"
    /\ Len(sent) = 1
    /\ LET f == sent[1]
       IN  arrived' = <<SubSeq(f, 1, Len(f) - 1)
                          \o <<xor_reduce(SubSeq(f, 3, Len(f) - 1))>> >>
    /\ UNCHANGED <<rpos, closed, pc, call, data, need, preamble, header,
                   last_broadcast, track_status, sent, result, response,
                   event, fstart, log>>

RoundNext ==
    \/ \E c \in Command : \E p \in RoundParams :
          arrived = <<>> /\ cmd(c, p, NoCmd)
    \/ echo
    \/ \E n \in 1..16 : recv(n)

RoundSpec == Init /\ [][RoundNext]_vars

\* ================================================================ properties
\* offset in the stream of the i-th frame the peer sent
FrameOffset(i) == Len(Flatten(SubSeq(arrived, 1, i - 1)))

\* the bytes the read loop consumed in its current or last iteration
HandledFrame == SubSeq(wire, fstart + 1, rpos)

\* the frame laid out at offset o is complete and its trailing byte is not
\* the XOR of its header and payload
ChecksumFailedAt(o) ==
    /\ Len(wire) >= o + 3
    /\ LET len == wire[o + 3] % 16
       IN  /\ Len(wire) >= o + 4 + len
           /\ xor_reduce(SubSeq(wire, o + 3, o + 3 + len)) # wire[o + 4 + len]

\* a peer frame whose own trailing byte does not match its header and payload
BadTrailer(f) == xor_reduce(SubSeq(f, 3, Len(f) - 1)) # f[Len(f)]

\* a peer frame with a recognised preamble, a length nibble that matches its
\* size and a correct checksum
WellFormed(f) ==
    /\ (f[1] * 256) + f[2] \in {PreambleDirect, PreambleBroadcast}
    /\ f[3] % 16 = Len(f) - 4
    /\ ~BadTrailer(f)

\* the decoding of a peer frame, for a call that sent command c
Decoding(c, f) ==
    frame_result(c, (f[1] * 256) + f[2], f[3], SubSeq(f, 4, Len(f) - 1))

\* the command code of the frame the read loop handled last
LastCode == LET h == log[Len(log)].header IN h - (h % 16)

\* XOR of a parameter list, 0 when it is empty
xor_params(p) == IF p = <<>> THEN 0 ELSE xor_reduce(p)

\* C1: a broadcast frame handled while cmd waits for its response never
\* completes the call: after a broadcast was absorbed the call is still in
\* the read loop.
C1_BroadcastNeverResolves ==
    ~(call.kind = "cmd" /\ event = "broadcast" /\ pc = "Idle")

\* the step in which the read loop finishes handling a decoded broadcast
BroadcastStep == event' = "broadcast" /\ rpos' # rpos

\* C2: handling a successfully decoded broadcast sets last_broadcast to the
\* decoded message whatever its variant and sets track_status to the
\* message's state exactly when the message is a TrackStatusMessage; the
\* broadcast FF FD 61 01 60 leaves track_status = TRACK_ON.
C2_BroadcastUpdatesSession ==
    [][BroadcastStep =>
        LET f == SubSeq(wire, fstart + 1, rpos')
            m == get_status(call.cmd, TRUE, f[3] - (f[3] % 16), f[3] % 16,
                            SubSeq(f, 4, Len(f) - 1))
        IN  /\ ~m.raised
            /\ last_broadcast' = m.value
            /\ track_status' = IF m.value.type = "TrackStatusMessage"
                               THEN m.value.state ELSE track_status
            /\ (f = <<255, 253, 97, 1, 96>> => track_status' = TRACK_ON)]_vars

C2_Witness ==
    /\ event = "broadcast"
    /\ HandledFrame = <<255, 253, 97, 1, 96>>
    /\ track_status = TRACK_ON
    /\ last_broadcast = [type |-> "TrackStatusMessage", state |-> TRACK_ON]

\* C3: the session state starts as (None, TRACK_OFF); a step changes it only
\* when that step finishes handling a broadcast frame with a valid checksum,
\* and track_status changes only when the broadcast is a TrackStatusMessage.
C3_SessionFrame ==
    /\ last_broadcast = NoneMsg /\ track_status = TRACK_OFF
    /\ [][(last_broadcast' # last_broadcast \/ track_status' # track_status) =>
            /\ BroadcastStep
            /\ LET f == SubSeq(wire, fstart + 1, rpos')
               IN  /\ f[1] = 255 /\ f[2] = 253
                   /\ ~BadTrailer(f)
            /\ (track_status' # track_status =>
                    last_broadcast'.type = "TrackStatusMessage")]_vars

C3_Witness ==
    /\ event = "direct"
    /\ call.kind = "cmd"
    /\ sent # <<>>
    /\ \E i \in DOMAIN log :
          log[i].class = "checksum" /\ log[i].preamble = PreambleBroadcast
    /\ last_broadcast = NoneMsg
    /\ track_status = TRACK_OFF

\* C4: a frame whose trailing byte differs from XOR(header, payload) is only
\* ever discarded by the checksum check: it is not decoded, not returned, it
\* changes nothing and the read loop goes on to the next frame.
C4_BadChecksumOnlySkipped ==
    \A i \in DOMAIN log :
        ChecksumFailedAt(log[i].start) => log[i].class = "checksum"

\* C5: when the read loop rejects a peer frame with a damaged byte and the
\* peer's next frame is well formed, the next read starts at that frame and
\* the next message produced is its decoding.
C5_ResyncOnNextFrame ==
    \A k \in DOMAIN log : \A i \in 1..(Len(arrived) - 1) :
        (/\ log[k].class = "checksum"
         /\ log[k].start = FrameOffset(i)
         /\ BadTrailer(arrived[i])
         /\ WellFormed(arrived[i + 1]))
        => /\ log[k].end = FrameOffset(i + 1)
           /\ (k + 1 \in DOMAIN log => log[k + 1].start = FrameOffset(i + 1))
           /\ ((k + 1 = Len(log) /\ event \in {"direct", "broadcast", "error"})
                 => log[k + 1].res = Decoding(call.cmd, arrived[i + 1]))

\* C6: every frame the read loop handles whose preamble is neither 0xFFFE nor
\* 0xFFFD ends the call with the unknown-preamble error.
C6_UnknownPreambleFatal ==
    \A i \in DOMAIN log :
        log[i].preamble \notin {PreambleDirect, PreambleBroadcast}
        => /\ log[i].class = "error"
           /\ log[i].res = Raise("XpressNetException", "Unknown response data")

\* C7: a cmd call that obtained a direct message m returns m when the code
\* is 0x00, raises the response-code error when the code differs from the
\* expected one, and returns m otherwise; nothing else happens.
C7_CmdOutcome ==
    (call.kind = "cmd" /\ event = "direct")
    => result = IF LastCode = 0 THEN Return(response)
                ELSE IF LastCode # call.expected
                THEN Raise("XpressNetException", "Response code")
                ELSE Return(response)

\* C8: a cmd call with more than 15 parameter bytes raises and writes
\* nothing to the transport.
C8_OversizeRejected ==
    (call.kind = "cmd" /\ Len(call.params) > 15)
    => (sent = <<>> /\ result.raised)

C10_ClosedReadEnds ==
    (closed # "open" /\ pc # "Idle") ~> (pc = "Idle")

\* the steps that end a call from inside the read loop
FrameEnded == event \in {"direct", "broadcast", "error", "bad_command"}

\* C11: a cmd call writes exactly one frame, before it reads anything, and
\* writes nothing more while it waits, whatever frames arrive; the write
\* takes the session from Idle into the read loop, and there is never more
\* than one command frame outstanding.
C11_SingleRoundTrip ==
    /\ [](Len(sent) <= 1)
    /\ []((call.kind = "cmd" /\ (pc # "Idle" \/ FrameEnded \/ event = "oserror"))
            => (/\ Len(sent) = 1
                /\ SubSeq(sent[1], 1, 2) = <<255, 254>>
                /\ SubSeq(sent[1], 4, Len(sent[1]) - 1) = call.params))
    /\ [][(pc # "Idle" => sent' = sent)
          /\ ((sent' # sent /\ sent' # <<>>) =>
                (pc = "Idle" /\ pc' = "ReadHeader" /\ rpos' = rpos
                 /\ fstart' = rpos /\ data' = <<>>))
          /\ ((pc # "Idle" /\ pc' = "Idle") => call' = call)]_vars

C11_Witness ==
    /\ call.kind = "cmd"
    /\ pc = "Idle"
    /\ event = "direct"
    /\ Len(log) = 2
    /\ log[1].class = "checksum"
    /\ Len(sent) = 1

\* C12: the k-th frame the read loop handles is the k-th frame of the
\* stream, read from its first to its last byte; only frames with a bad
\* checksum are passed over, and what the loop hands back is the decoding of
\* the frame.
C12_FramesInStreamOrder ==
    \A k \in DOMAIN log :
        /\ k <= Len(arrived)
        /\ log[k].start = FrameOffset(k)
        /\ log[k].end = FrameOffset(k + 1)
        /\ (log[k].class = "checksum" <=> BadTrailer(arrived[k]))
        /\ ((k = Len(log) /\ FrameEnded)
              => log[k].res = Decoding(call.cmd, arrived[k]))

\* how one read of the full header and one read of the full body parse the
\* stream at offset o
OneShotEnd(o) ==
    IF (wire[o + 3] - (wire[o + 3] % 16)) \notin Command THEN o + 3
    ELSE o + 4 + (wire[o + 3] % 16)

OneShotClass(o, c) ==
    LET h == wire[o + 3]
        e == OneShotEnd(o)
        r == frame_result(c, (wire[o + 1] * 256) + wire[o + 2], h,
                          SubSeq(wire, o + 4, e - 1))
    IN  IF (h - (h % 16)) \notin Command THEN "bad_command"
        ELSE IF xor_reduce(SubSeq(wire, o + 3, e - 1)) # wire[e] THEN "checksum"
        ELSE IF r.raised THEN "error"
        ELSE IF wire[o + 1] = 255 /\ wire[o + 2] = 254 THEN "direct"
        ELSE "broadcast"

\* C13: however sock.recv splits the stream, a read in progress holds
\* exactly the bytes handed out for it, and every frame parsed has the
\* preamble, code, length and payload that reading it in two full reads
\* gives.
C13_ChunkingIndependent ==
    /\ (pc \in {"ReadHeader", "ReadData"} =>
            /\ Len(data) < need
            /\ rpos = fstart + (IF pc = "ReadHeader" THEN 0 ELSE 3) + Len(data)
            /\ data = SubSeq(wire, rpos - Len(data) + 1, rpos))
    /\ \A k \in DOMAIN log :
          LET o == log[k].start
          IN  /\ log[k].preamble = (wire[o + 1] * 256) + wire[o + 2]
              /\ log[k].header = wire[o + 3]
              /\ log[k].end = OneShotEnd(o)
              /\ (k = Len(log) /\ (FrameEnded \/ event = "checksum")
                    => /\ log[k].class = OneShotClass(o, call.cmd)
                       /\ (log[k].class \in {"direct", "broadcast", "error"} =>
                             log[k].res = frame_result(call.cmd, log[k].preamble,
                                 log[k].header, SubSeq(wire, o + 4, log[k].end - 1))))

C13_Witness ==
    /\ pc = "ReadData"
    /\ event = "partial"
    /\ need = 4
    /\ Len(data) = 3
    /\ Len(log) = 1
    /\ log[1].class = "checksum"

\* bit i of byte b
Bit(b, i) == (b \div (2 ^ i)) % 2

\* C14: a direct STATUS frame with payload (subcode, cv, value) decodes to
\* ProgrammingResult(cv', value): cv' = cv for subcode 0x10, 1024 if cv = 0
\* else cv for 0x14, cv + 256 for 0x15, cv + 512 for 0x16, cv + 768 for 0x17;
\* any other subcode or length is an error, and cv' lies in 0..1024.
C14_ProgrammingDecode ==
    pc = "Decoded" =>
        /\ IF Len(data) = 3 /\ data[1] \in {16, 20, 21, 22, 23}
           THEN /\ ~result.raised
                /\ result.value.type = "XpressNetProgrammingResult"
                /\ result.value.value = data[3]
                /\ result.value.cv =
                     CASE data[1] = 16 -> data[2]
                       [] data[1] = 20 -> IF data[2] = 0 THEN 1024 ELSE data[2]
                       [] data[1] = 21 -> data[2] + 256
                       [] data[1] = 22 -> data[2] + 512
                       [] data[1] = 23 -> data[2] + 768
                /\ result.value.cv \in 0..1024
           ELSE result.raised
        /\ (data = <<16, 5, 200>> => result.value.cv = 5 /\ result.value.value = 200)
        /\ (data = <<20, 0, 77>> => result.value.cv = 1024 /\ result.value.value = 77)
        /\ (data = <<23, 3, 9>> => result.value.cv = 771 /\ result.value.value = 9)

C14_Witness ==
    /\ pc = "Decoded"
    /\ data = <<20, 0, 77>>
    /\ result = Return([type |-> "XpressNetProgrammingResult",
                        cv |-> 1024, value |-> 77])

\* C15: a command with at most 15 parameter bytes, sent back with the
\* receive-side checksum, passes the inbound check and is parsed to the same
\* command code, the length len(p) and the payload p.
C15_RoundTrip ==
    \A k \in DOMAIN log :
        Len(call.params) <= 15 =>
            /\ log[k].class \notin {"checksum", "bad_command"}
            /\ log[k].preamble = PreambleDirect
            /\ log[k].header - (log[k].header % 16) = call.cmd
            /\ log[k].header % 16 = Len(call.params)
            /\ log[k].end - log[k].start = Len(call.params) + 4
            /\ SubSeq(wire, log[k].start + 4, log[k].end - 1) = call.params

C15_Witness ==
    /\ pc = "Idle"
    /\ Len(log) = 1
    /\ call.cmd = LOCO
    /\ call.params = [i \in 1..15 |-> i]
    /\ log[1].header = 239
    /\ log[1].end = 19

\* C17: a frame with code 0x00 decodes to CommandResult(code, OK, payload)
\* when the outstanding command is INTERFACE; otherwise, also with no
\* outstanding command, the payload must be one byte, decoded as the status,
\* and any other length is an error.
C17_InterfaceStatusDecode ==
    pc = "Decoded" =>
        IF call.cmd = INTERFACE
        THEN result = Return([type |-> "XpressNetCommandResult",
                              code |-> 0, status |-> 0, data |-> data])
        ELSE IF Len(data) # 1 THEN result.raised
        ELSE IF data[1] \in Status
        THEN result = Return([type |-> "XpressNetCommandResult",
                              code |-> 0, status |-> data[1], data |-> <<>>])
        ELSE result.raised

C17_Witness ==
    /\ pc = "Decoded"
    /\ call.cmd = NoCmd
    /\ data = <<4>>
    /\ ~result.raised
    /\ result.value.status = 4

\* C18: an accessory report with payload (b0, b1) decodes to address b0,
\* undetermined = bit 6 of b1, kind = bits 6-5 of b1, nibble = bit 4 of b1
\* and state[i] = bit i of b1 for i in 0..3.
C18_AccessoryDecode ==
    pc = "Decoded" =>
        result = Return([type |-> "AccessoryStateMessage",
                         address |-> data[1],
                         undetermined |-> (Bit(data[2], 6) = 1),
                         kind |-> (2 * Bit(data[2], 6)) + Bit(data[2], 5),
                         nibble |-> Bit(data[2], 4),
                         state |-> [i \in 1..4 |-> Bit(data[2], i - 1)]])

C18_Witness ==
    /\ pc = "Decoded"
    /\ data = <<5, 82>>
    /\ result.value.address = 5
    /\ result.value.undetermined
    /\ result.value.kind = 2
    /\ result.value.nibble = 1
    /\ result.value.state = <<0, 1, 0, 0>>

\* the frame laid out at offset o has all its bytes on the stream
CompleteAt(o) ==
    /\ Len(wire) >= o + 3
    /\ Len(wire) >= o + 4 + (wire[o + 3] % 16)

\* a frame that the decode table has no entry for
NotInTable(p, h, payload) ==
    LET code == h - (h % 16)
    IN  \/ code \notin Command
        \/ code \in {PROGRAMMING, ACCESSORY_CONTROL, ALL_LOCOS, LOCO}
        \/ (code = INTERFACE /\ Len(payload) >= 1 /\ payload[1] \notin {1, 2, 3})
        \/ (code = STATUS /\ p = PreambleDirect /\ Len(payload) = 3
              /\ payload[1] \notin {16, 20, 21, 22, 23})
        \/ (code = STATUS /\ p = PreambleBroadcast /\ Len(payload) = 1
              /\ payload[1] \notin {0, 1, 2})

\* C16: a frame with a recognised preamble and a correct checksum that has
\* no entry in the decode table ends the call with the library's
\* unknown-message error, raised to the caller; the loop does not go on.
C16_UnknownMessageSurfaced ==
    \A k \in DOMAIN log :
        LET o == log[k].start
            len == wire[o + 3] % 16
        IN  (/\ CompleteAt(o)
             /\ ~ChecksumFailedAt(o)
             /\ log[k].preamble \in {PreambleDirect, PreambleBroadcast}
             /\ NotInTable(log[k].preamble, wire[o + 3],
                           SubSeq(wire, o + 4, o + 3 + len)))
            => /\ log[k].res.raised
               /\ log[k].res.exc = "XpressNetException"
               /\ ((k = Len(log) /\ FrameEnded) =>
                     (pc = "Idle" /\ result = log[k].res))

\* C19: every frame the read loop handled was consumed whole: its 2
\* preamble bytes, its header, the payload bytes its length nibble announces
\* and its checksum byte, so the loop is left at a frame boundary.
C19_ExitAtFrameBoundary ==
    \A k \in DOMAIN log :
        log[k].end - log[k].start = 4 + (log[k].header % 16)

\* C20: track_status is TRACK_OFF, TRACK_ON or PROGRAMMING, and when
\* last_broadcast is a TrackStatusMessage, track_status is its state.
C20_SessionConsistent ==
    /\ track_status \in {TRACK_OFF, TRACK_ON, TRACK_PROGRAMMING}
    /\ (last_broadcast.type = "TrackStatusMessage"
          => track_status = last_broadcast.state)

C20_Witness ==
    /\ Len(log) = 2
    /\ log[1].res = Return([type |-> "TrackStatusMessage", state |-> TRACK_ON])
    /\ last_broadcast = [type |-> "TrackStatusMessage", state |-> TRACK_OFF]
    /\ track_status = TRACK_OFF

====
